---- MODULE Spec2Model ----
(***************************************************************************)
(* Model of the checkpointed Wayback robots.txt scraper                    *)
(* (src/src/data_collection/scrape_robots_wayback.py).                     *)
(*                                                                         *)
(* Spec        batch_scrape_domains over a list of domains, with process   *)
(*             termination at any step, failures of the output file, and   *)
(*             later runs that resume from the files left on disk.         *)
(* SpecFaults  Spec, where the opens and writes of the error log and of    *)
(*             the checkpoint file can fail too.                           *)
(* SpecScrape  one call of scrape_robots_and_signals through the batch     *)
(*             runner, with every outcome of the two fetches per snapshot. *)
(* SpecResume  one run of batch_scrape_domains over the files an earlier   *)
(*             run or an editor left on disk.                              *)
(* SpecParse   parse_robots_txt, one line of the text per step.            *)
(*                                                                         *)
(* Conventions.  A Python str is the sequence of its characters (<<>> is   *)
(* ''); Str("abc") is <<"a", "b", "c">>.  A printable ASCII character,     *)
(* the backtick apart, is a one-character string, and so are "\t", "\n",   *)
(* "\f" and "\r"; every other character is the name "U+XXXX" of its code   *)
(* point ("U+0060" is the backtick, "U+0008" the backspace).  The alphabet *)
(* is ASCII and the whitespace characters of Unicode.  None is <<>> and a  *)
(* present value v is <<v>>.  A file is a record [exists, ...]; the output *)
(* and the error log hold a sequence of lines.  Indices are the 0-based    *)
(* row labels of the input DataFrame.                                      *)
(***************************************************************************)
EXTENDS Integers, Sequences, FiniteSets, TLC

\* ------------------------------------------------------------ bounds
NumDomains == 2
MaxSnaps == 2
\* Terminations, new runs, failed opens and writes of a file and creations of
\* the output directory in one behaviour
MaxIncidents == 1

\* ------------------------------------------------------------ values
None == <<>>
Some(v) == <<v>>

Min(a, b) == IF a < b THEN a ELSE b

\* The characters of a string literal, as a Python str
Str(s) == [i \in 1..Len(s) |-> SubSeq(s, i, i)]

\* Host names of the input list, one per row, so that rows are told apart.
SiteNames == <<"a.com", "b.org", "c.net", "d.io", "e.dev", "f.app">>

\* ------------------------------------------------------------ str methods
\* The characters str.strip() removes: those for which str.isspace() holds
WHITESPACE ==
    { "\t", "\n", "U+000B", "\f", "\r", "U+001C", "U+001D", "U+001E", "U+001F", " ",
      "U+0085", "U+00A0", "U+1680", "U+2000", "U+2001", "U+2002", "U+2003", "U+2004",
      "U+2005", "U+2006", "U+2007", "U+2008", "U+2009", "U+200A", "U+2028", "U+2029",
      "U+202F", "U+205F", "U+3000" }

RECURSIVE LStrip(_, _)
LStrip(s, chars) ==
    IF s # <<>> /\ Head(s) \in chars THEN LStrip(Tail(s), chars) ELSE s

RECURSIVE RStrip(_, _)
RStrip(s, chars) ==
    IF s # <<>> /\ s[Len(s)] \in chars THEN RStrip(SubSeq(s, 1, Len(s) - 1), chars) ELSE s

\* str.strip() (whitespace) and str.strip('/')
Strip(s) == RStrip(LStrip(s, WHITESPACE), WHITESPACE)
StripSlash(s) == RStrip(LStrip(s, {"/"}), {"/"})

\* str.startswith(prefix)
StartsWith(s, prefix) ==
    Len(s) >= Len(prefix) /\ SubSeq(s, 1, Len(prefix)) = prefix

\* str.replace(old, ''): the occurrences of old, left to right, are removed
RECURSIVE Remove(_, _)
Remove(s, old) ==
    IF Len(s) < Len(old) THEN s
    ELSE IF StartsWith(s, old) THEN Remove(SubSeq(s, Len(old) + 1, Len(s)), old)
    ELSE <<Head(s)>> \o Remove(Tail(s), old)

\* str.split(sep): the pieces between the occurrences of the character sep
RECURSIVE Split(_, _)
Split(s, sep) ==
    IF \E i \in 1..Len(s) : s[i] = sep
    THEN LET i == CHOOSE k \in 1..Len(s) : s[k] = sep /\ \A j \in 1..(k - 1) : s[j] # sep
         IN <<SubSeq(s, 1, i - 1)>> \o Split(SubSeq(s, i + 1, Len(s)), sep)
    ELSE <<s>>

\* str.split(sep, 1): at most one split
SplitOnce(s, sep) ==
    IF \E i \in 1..Len(s) : s[i] = sep
    THEN LET i == CHOOSE k \in 1..Len(s) : s[k] = sep /\ \A j \in 1..(k - 1) : s[j] # sep
         IN <<SubSeq(s, 1, i - 1), SubSeq(s, i + 1, Len(s))>>
    ELSE <<s>>

\* sep.join(parts)
RECURSIVE Join(_, _)
Join(parts, sep) ==
    IF parts = <<>> THEN <<>>
    ELSE IF Len(parts) = 1 THEN parts[1]
    ELSE parts[1] \o sep \o Join(Tail(parts), sep)

\* s[:n]
Truncate(s, n) == SubSeq(s, 1, Min(Len(s), n))

\* str.lower()
UPPERCASE == Str("ABCDEFGHIJKLMNOPQRSTUVWXYZ")
LOWERCASE == Str("abcdefghijklmnopqrstuvwxyz")
LowerChar(c) ==
    IF \E i \in 1..Len(UPPERCASE) : UPPERCASE[i] = c
    THEN LOWERCASE[CHOOSE i \in 1..Len(UPPERCASE) : UPPERCASE[i] = c]
    ELSE c
Lower(s) == [i \in 1..Len(s) |-> LowerChar(s[i])]

DigitChars == Str("0123456789")
IsDigit(c) == \E d \in 1..10 : DigitChars[d] = c
DigitOf(c) == (CHOOSE d \in 1..10 : DigitChars[d] = c) - 1

\* str(n) for n >= 0: the decimal digits, most significant first
RECURSIVE StrOfNat(_)
StrOfNat(n) ==
    IF n < 10 THEN <<DigitChars[n + 1]>>
    ELSE Append(StrOfNat(n \div 10), DigitChars[(n % 10) + 1])

\* n as at least w digits, zero-filled on the left
RECURSIVE ZeroFill(_, _)
ZeroFill(n, w) ==
    IF w <= 1 THEN StrOfNat(n)
    ELSE IF Len(StrOfNat(n)) >= w THEN StrOfNat(n)
    ELSE <<"0">> \o ZeroFill(n, w - 1)

RECURSIVE DigitsValue(_)
DigitsValue(s) ==
    IF s = <<>> THEN 0
    ELSE 10 * DigitsValue(SubSeq(s, 1, Len(s) - 1)) + DigitOf(s[Len(s)])

\* int(s) trims whitespace (the separators U+001C..U+001F are not whitespace
\* to it), then accepts an optional sign and digits with single underscores
\* between them
INT_WHITESPACE == WHITESPACE \ {"U+001C", "U+001D", "U+001E", "U+001F"}

Unsigned(s) == IF s # <<>> /\ Head(s) \in {"+", "-"} THEN Tail(s) ELSE s

IntLiteral(u) ==
    /\ u # <<>>
    /\ IsDigit(u[1]) /\ IsDigit(u[Len(u)])
    /\ \A i \in 1..Len(u) : IsDigit(u[i]) \/ u[i] = "_"
    /\ \A i \in 1..(Len(u) - 1) : ~(u[i] = "_" /\ u[i + 1] = "_")

\* int(s): [ok |-> FALSE] stands for ValueError
ParseInt(s) ==
    LET t == RStrip(LStrip(s, INT_WHITESPACE), INT_WHITESPACE)
        u == Unsigned(t)
    IN IF IntLiteral(u)
       THEN [ok |-> TRUE,
             val |-> (IF Head(t) = "-" THEN -1 ELSE 1) * DigitsValue(Remove(u, <<"_">>))]
       ELSE [ok |-> FALSE, val |-> 0]

\* ------------------------------------------------------------ signal extractor
\* A dict is a sequence of [key, val] pairs in insertion order.
DictHas(d, k) == \E i \in 1..Len(d) : d[i].key = k
DictGet(d, k) == d[CHOOSE i \in 1..Len(d) : d[i].key = k].val
DictSet(d, k, v) ==
    IF DictHas(d, k)
    THEN [i \in 1..Len(d) |-> IF d[i].key = k THEN [key |-> k, val |-> v] ELSE d[i]]
    ELSE Append(d, [key |-> k, val |-> v])

\* Python truthiness of current_agent (None and '' are false)
Truthy(opt) == opt # None /\ opt[1] # <<>>

\* Mutant: a line met before any user-agent line is kept, under the key ''
ParseLineKeepsOrphans(st, raw) ==
    LET line == Strip(raw) IN
    IF line = <<>> \/ StartsWith(line, <<"#">>) THEN st
    ELSE IF StartsWith(Lower(line), Str("user-agent:"))
    THEN LET agent == Strip(SplitOnce(line, ":")[2]) IN
         [rules |-> DictSet(st.rules, agent, <<>>), current_agent |-> Some(agent)]
    ELSE IF Truthy(st.current_agent)
    THEN LET agent == st.current_agent[1] IN
         [st EXCEPT !.rules = DictSet(st.rules, agent, Append(DictGet(st.rules, agent), line))]
    ELSE [st EXCEPT !.rules =
             DictSet(st.rules, <<>>,
                     Append(IF DictHas(st.rules, <<>>) THEN DictGet(st.rules, <<>>) ELSE <<>>,
                            line))]

\* One iteration of the loop of parse_robots_txt; st = [rules, current_agent]
ParseLine(st, raw) ==
    LET line == Strip(raw) IN
    IF line = <<>> \/ StartsWith(line, <<"#">>) THEN st
    ELSE IF StartsWith(Lower(line), Str("user-agent:"))
    THEN LET agent == Strip(SplitOnce(line, ":")[2]) IN
         [rules |-> DictSet(st.rules, agent, <<>>), current_agent |-> Some(agent)]
    ELSE IF Truthy(st.current_agent)
    THEN LET agent == st.current_agent[1] IN
         [st EXCEPT !.rules = DictSet(st.rules, agent, Append(DictGet(st.rules, agent), line))]
    ELSE st

RECURSIVE ParseLines(_, _)
ParseLines(st, lines) ==
    IF lines = <<>> THEN st ELSE ParseLines(ParseLine(st, Head(lines)), Tail(lines))

\* parse_robots_txt(text)
parse_robots_txt(robots_text) ==
    ParseLines([rules |-> <<>>, current_agent |-> None], Split(robots_text, "\n")).rules

\* A response body: its text, and the elements html.parser finds in it.
\* is_html(text): BeautifulSoup(text).find() returns an element
is_html(body) == body.elements # <<>>

\* extract_meta_robots(html_text): the first <meta name="robots"> decides
extract_meta_robots(body) ==
    LET metas == SelectSeq(body.elements,
                           LAMBDA e : e.tag = "meta" /\ e.name = Some(Str("robots"))) IN
    IF metas # <<>> /\ metas[1].content # None
    THEN Some(Lower(metas[1].content[1]))
    ELSE None

\* extract_x_robots_tag(headers); headers is a sequence of <<key, value>>
extract_x_robots_tag(headers) ==
    LET hits == SelectSeq(headers, LAMBDA h : Lower(h[1]) = Str("x-robots-tag")) IN
    IF hits # <<>> THEN Some(Lower(hits[1][2])) ELSE None

\* The code point of a character that is written by its name "U+XXXX"
HexDigits == Str("0123456789ABCDEF")
HexDigitOf(c) == CHOOSE i \in 0..15 : HexDigits[i + 1] = c
RECURSIVE HexValue(_)
HexValue(s) ==
    IF s = <<>> THEN 0 ELSE 16 * HexValue(SubSeq(s, 1, Len(s) - 1)) + HexDigitOf(s[Len(s)])
CodePoint(c) == HexValue(Str(SubSeq(c, 3, 6)))

\* The code points json.dumps writes as they are (space to tilde), the
\* quote and the backslash apart
PRINTABLE == 32..126

\* json.dumps(s) of a str: quotes, with the escapes of ensure_ascii
JsonChar(c) ==
    CASE c = "\"" -> <<"\\", "\"">>
      [] c = "\\" -> <<"\\", "\\">>
      [] c = "\n" -> <<"\\", "n">>
      [] c = "\r" -> <<"\\", "r">>
      [] c = "\t" -> <<"\\", "t">>
      [] c = "\f" -> <<"\\", "f">>
      [] c = "U+0008" -> <<"\\", "b">>
      [] Len(c) = 6 /\ CodePoint(c) \notin PRINTABLE ->
            <<"\\", "u">> \o Lower(Str(SubSeq(c, 3, 6)))
      [] OTHER -> <<c>>

RECURSIVE JsonChars(_)
JsonChars(s) == IF s = <<>> THEN <<>> ELSE JsonChar(Head(s)) \o JsonChars(Tail(s))

JsonStr(s) == <<"\"">> \o JsonChars(s) \o <<"\"">>

\* json.dumps(l) of a list of str
JsonList(l) ==
    <<"[">> \o Join([i \in 1..Len(l) |-> JsonStr(l[i])], Str(", ")) \o <<"]">>

\* json.dumps(d) of a dict of str to list of str
JsonDumps(d) ==
    <<"{">>
    \o Join([i \in 1..Len(d) |-> JsonStr(d[i].key) \o Str(": ") \o JsonList(d[i].val)],
            Str(", "))
    \o <<"}">>

\* ------------------------------------------------------------ archive query client
\* A CDX reply: kind is "timeout" | "request_error" | "bad_json" | "json_null" |
\* "json" (a JSON array: results[1] is the row of keys, the rest are entries).
CdxReply(kind, results) == [kind |-> kind, results |-> results]

\* dict(zip(keys, entry))
Zip(keys, entry) ==
    LET n == Min(Len(keys), Len(entry)) IN
    [k \in {keys[i] : i \in 1..n} |->
        entry[CHOOSE i \in 1..n : keys[i] = k /\ \A j \in (i + 1)..n : keys[j] # k]]

\* get_cdx_snapshots: [raises, msg, snapshots]
get_cdx_snapshots(reply) ==
    IF reply.kind \in {"timeout", "request_error", "bad_json"}
    THEN [raises |-> FALSE, msg |-> <<>>, snapshots |-> <<>>]
    ELSE IF reply.kind = "json_null"
    THEN [raises |-> TRUE, msg |-> Str("object of type 'NoneType' has no len()"),
          snapshots |-> <<>>]
    ELSE IF Len(reply.results) <= 1
    THEN [raises |-> FALSE, msg |-> <<>>, snapshots |-> <<>>]
    ELSE LET keys == reply.results[1]
             zipped == [i \in 1..(Len(reply.results) - 1) |->
                           Zip(keys, reply.results[i + 1])]
         IN [raises |-> FALSE, msg |-> <<>>,
             snapshots |-> SelectSeq(zipped,
                 LAMBDA sn : "timestamp" \in DOMAIN sn /\ "original" \in DOMAIN sn)]

\* ------------------------------------------------------------ snapshot fetcher
NoBody == [text |-> <<>>, elements |-> <<>>]

\* What download_wayback does: return a response or raise.  classes is the
\* set of exception classes the raised exception is an instance of.
Response(status, body, headers) ==
    [raises |-> FALSE, classes |-> {}, msg |-> <<>>,
     status |-> status, body |-> body, headers |-> headers]
Raise(classes, msg) ==
    [raises |-> TRUE, classes |-> classes, msg |-> msg,
     status |-> 0, body |-> NoBody, headers |-> <<>>]

\* The mark, in the history of fetches, of a homepage request that was not made
NotFetched == [raises |-> FALSE, classes |-> {}, msg |-> <<>>, status |-> 0,
               body |-> NoBody, headers |-> <<>>]

\* ------------------------------------------------------------ orchestrator
HTML_SENTINEL == Str("HTML Content (Not robots.txt)")

\* clean_domain
CleanDomain(domain) ==
    StripSlash(Strip(Remove(Remove(domain, Str("http://")), Str("https://"))))

\* The per-snapshot locals before the try block
SnapLocals ==
    [robots_text |-> None, raw_robots_response_text |-> None, robots_rules |-> <<>>,
     robots_content_type |-> Str("unknown"), meta_robots |-> None, x_robots_tag |-> None,
     status_robots |-> None, status_home |-> None, error_details |-> None]

\* The robots.txt half of the try block, given the response
RobotsStep(loc, r) ==
    LET l1 == [loc EXCEPT !.status_robots = Some(r.status)] IN
    IF r.status = 200
    THEN LET l2 == [l1 EXCEPT !.raw_robots_response_text = Some(r.body.text)] IN
         IF is_html(r.body)
         THEN [l2 EXCEPT !.robots_text = Some(HTML_SENTINEL),
                         !.robots_content_type = Str("HTML_page")]
         ELSE [l2 EXCEPT !.robots_text = Some(r.body.text),
                         !.robots_rules = parse_robots_txt(r.body.text),
                         !.robots_content_type = Str("robots.txt")]
    ELSE [l1 EXCEPT !.robots_content_type = Str("HTTP_Error_") \o StrOfNat(r.status)]

\* Mutant: the signals are extracted whatever the status of the homepage
HomeStepNoStatusTest(loc, r) ==
    [loc EXCEPT !.status_home = Some(r.status),
                !.meta_robots = extract_meta_robots(r.body),
                !.x_robots_tag = extract_x_robots_tag(r.headers)]

\* Mutant: the meta tag is read before the status of the homepage is tested
HomeStepMetaAnyStatus(loc, r) ==
    LET l1 == [loc EXCEPT !.status_home = Some(r.status),
                          !.meta_robots = extract_meta_robots(r.body)] IN
    IF r.status = 200
    THEN [l1 EXCEPT !.x_robots_tag = extract_x_robots_tag(r.headers)]
    ELSE l1

\* The homepage half of the try block, given the response
HomeStep(loc, r) ==
    LET l1 == [loc EXCEPT !.status_home = Some(r.status)] IN
    IF r.status = 200
    THEN [l1 EXCEPT !.meta_robots = extract_meta_robots(r.body),
                    !.x_robots_tag = extract_x_robots_tag(r.headers)]
    ELSE l1

\* Mutant: the ConnectionError clause comes before the Timeout clause
ErrorDetailsConnectionFirst(e) ==
    IF "ConnectionError" \in e.classes THEN Str("ConnectionError")
    ELSE IF "Timeout" \in e.classes THEN Str("Timeout")
    ELSE IF "RequestException" \in e.classes
    THEN Str("RequestException: ") \o Truncate(e.msg, 100)
    ELSE Str("GeneralError: ") \o Truncate(e.msg, 100)

\* The except clauses, in order
ErrorDetails(e) ==
    IF "Timeout" \in e.classes THEN Str("Timeout")
    ELSE IF "ConnectionError" \in e.classes THEN Str("ConnectionError")
    ELSE IF "RequestException" \in e.classes
    THEN Str("RequestException: ") \o Truncate(e.msg, 100)
    ELSE Str("GeneralError: ") \o Truncate(e.msg, 100)

\* The try/except of one snapshot: the locals after it and the fetches made
TrySnapshot(ro, ho) ==
    IF ro.raises
    THEN [loc |-> [SnapLocals EXCEPT !.error_details = Some(ErrorDetails(ro))],
          fetches |-> 1]
    ELSE LET l1 == RobotsStep(SnapLocals, ro) IN
         IF ho.raises
         THEN [loc |-> [l1 EXCEPT !.error_details = Some(ErrorDetails(ho))], fetches |-> 2]
         ELSE [loc |-> HomeStep(l1, ho), fetches |-> 2]

\* data.append({...})
MakeRecord(domain, snap, loc) ==
    [domain |-> domain,
     timestamp |-> snap.timestamp,
     scraped_url |-> snap.original,
     robots_txt |-> loc.robots_text,
     raw_robots_response_text |-> loc.raw_robots_response_text,
     robots_content_type |-> loc.robots_content_type,
     robots_rules |-> IF loc.robots_rules # <<>> THEN Some(JsonDumps(loc.robots_rules))
                      ELSE None,
     meta_robots |-> loc.meta_robots,
     x_robots_tag |-> loc.x_robots_tag,
     status_robots |-> loc.status_robots,
     status_home |-> loc.status_home,
     error_details |-> loc.error_details]

\* ------------------------------------------------------------ inputs
\* The timestamps the archive gives: an instant, a day that does not exist,
\* an instant written with a one-digit second, a leap day, an earlier instant
SnapTimestamps ==
    <<"20230611120000", "20230230120000", "2023061112000", "20240229235959",
      "20220101000000">>

\* The i-th snapshot reference of a CDX reply
SnapEntry(i) == <<Str(SnapTimestamps[i]), Str("http://archived/") \o StrOfNat(i)>>
CdxKeys == <<"timestamp", "original">>

ROBOTS_BODY == [text |-> Str("User-Agent: *\n Disallow: /admin\f"), elements |-> <<>>]
HTML_BODY ==
    [text |-> Str("<html><meta name=robots content=NoIndex>"),
     elements |-> <<[tag |-> "html", name |-> None, content |-> None],
                    [tag |-> "meta", name |-> Some(Str("robots")),
                     content |-> Some(Str("NoIndex"))]>>]
PLAIN_HTML_BODY ==
    [text |-> Str("<html>"),
     elements |-> <<[tag |-> "html", name |-> None, content |-> None]>>]
TAG_HEADERS ==
    << <<Str("Content-Type"), Str("text/html")>>, <<Str("X-ROBOTS-TAG"), Str("NoArchive")>> >>

LongMessage == [i \in 1..101 |-> "x"]
ShortMessage == Str("boom")

RaiseOutcomes ==
    { Raise({"Timeout", "RequestException", "Exception"}, ShortMessage),
      Raise({"ConnectTimeout", "ConnectionError", "Timeout", "RequestException", "Exception"},
            ShortMessage),
      Raise({"ConnectionError", "RequestException", "Exception"}, ShortMessage),
      Raise({"RequestException", "Exception"}, LongMessage),
      Raise({"Exception"}, ShortMessage) }

AllRobotsOutcomes ==
    { Response(200, ROBOTS_BODY, <<>>), Response(200, HTML_BODY, <<>>),
      Response(404, HTML_BODY, <<>>) } \cup RaiseOutcomes
\* The homepage answers 200 with or without the two signals, or 503 with
\* both of them; or the fetch raises a connect timeout or an exception of no
\* requests class
AllHomeOutcomes ==
    { Response(200, HTML_BODY, TAG_HEADERS), Response(200, PLAIN_HTML_BODY, <<>>),
      Response(503, HTML_BODY, TAG_HEADERS),
      Raise({"ConnectTimeout", "ConnectionError", "Timeout", "RequestException", "Exception"},
            ShortMessage),
      Raise({"Exception"}, ShortMessage) }

\* The batch specification fixes the fetch outcomes: the runner never reads them.
BatchRobotsOutcomes == { Response(200, ROBOTS_BODY, <<>>) }
BatchHomeOutcomes == { Response(200, HTML_BODY, TAG_HEADERS) }

SeqsUpTo(S, n) == UNION { [1..k -> S] : k \in 0..n }

FailedReplies ==
    { CdxReply("timeout", <<>>), CdxReply("request_error", <<>>),
      CdxReply("bad_json", <<>>), CdxReply("json_null", <<>>),
      CdxReply("json", <<>>), CdxReply("json", <<CdxKeys>>),
      CdxReply("json", <<<<"timestamp">>, <<SnapEntry(1)[1]>>>>) }

\* Replies with 1..MaxSnaps entries, in any order and with repeats
AllReplies ==
    FailedReplies \cup
    { CdxReply("json", <<CdxKeys>> \o [i \in 1..Len(q) |-> SnapEntry(q[i])]) :
        q \in SeqsUpTo({1, 2}, MaxSnaps) \ {<<>>} }

\* A cell of the 'domain' column: NaN (missing) or a string
NaN == [isna |-> TRUE, text |-> <<>>]
Cell(s) == [isna |-> FALSE, text |-> s]

NoSnapshotsReply == CdxReply("timeout", <<>>)
RaisingReply == CdxReply("json_null", <<>>)
RecordsReply(n) == CdxReply("json", <<CdxKeys>> \o [i \in 1..n |-> SnapEntry(i)])

\* Row i of the input with what the archive answers for it: a blank cell, a
\* missing cell, a scheme with no host, or a host name the archive knows
\* nothing of, answers malformed JSON for, or has MaxSnaps snapshots of.
\* The archive answers the same in every run.
RowChoices(i) ==
    { [cell |-> Cell(<<" ", "U+00A0">>), reply |-> NoSnapshotsReply],
      [cell |-> NaN, reply |-> NoSnapshotsReply],
      [cell |-> Cell(Str("http://")), reply |-> NoSnapshotsReply],
      [cell |-> Cell(Str(SiteNames[i])), reply |-> NoSnapshotsReply],
      [cell |-> Cell(Str(SiteNames[i])), reply |-> RaisingReply],
      [cell |-> Cell(Str(SiteNames[i])), reply |-> RecordsReply(MaxSnaps)] }

\* The rows of the runs that are terminated and started again
BatchRowChoices(i) ==
    { [cell |-> Cell(<<" ", "U+00A0">>), reply |-> NoSnapshotsReply],
      [cell |-> Cell(Str(SiteNames[i])), reply |-> NoSnapshotsReply],
      [cell |-> Cell(Str(SiteNames[i])), reply |-> RaisingReply],
      [cell |-> Cell(Str(SiteNames[i])), reply |-> RecordsReply(MaxSnaps)] }

\* ------------------------------------------------------------ state
VARIABLES
    cells,            \* domains_df["domain"], read from the input file
    archive,          \* the CDX reply the archive gives for each row's domain
    input_state,      \* "ok" | "missing_file" | "no_column"
    output_dir,       \* the directory named in output_csv exists (ensure_dir_exists)
    checkpoint,       \* checkpoint file [exists, text]
    output,           \* output dataset [exists, lines]
    errlog,           \* error log [exists, lines]
    pc,               \* position of the process in batch_scrape_domains
    index,            \* loop variable of the iteration over domains_df
    start_index, csv_exists, success_count, fail_count, total_snapshots,
    domain,           \* the stripped domain being processed
    df,               \* what scrape_robots_and_signals returned
    exc,              \* the message of the exception being handled
    snapshots, data, snap_i,   \* locals of scrape_robots_and_signals
    pending,          \* lines of to_csv not yet flushed to the output file
    err_msg,          \* the reason to write to the error log
    restarts,         \* runs started after the first one
    faults,           \* opens and writes of a file that failed so far
    created,          \* directories ensure_dir_exists made so far
    found,            \* history: the three files as the current run found them
    terminated,       \* history: how many of them followed a termination
    fetch_log,        \* history: the fetch outcomes of each snapshot of the invocation
    fetches,          \* history: download_wayback calls of the current invocation
    queried,          \* history: "no" | "zero" | "some" | "raised" for the invocation
    entry,            \* history: counters and files when the domain was begun
    outcome,          \* history: "records" | "empty" | "exception" for the domain
    handled,          \* history: <<index, outcome>> of the domains finished this run
    events,           \* history: <<kind, index>> of what this run did
    text,             \* parse_robots_txt: its argument
    rules, current_agent,   \* parse_robots_txt: its locals
    line_no,          \* parse_robots_txt: lines of the text iterated over so far
    parsed,           \* parse_robots_txt: what it returned (None before)
    placed            \* history: <<line number, key>> of every append to a group

inputs == <<cells, archive, input_state, output_dir>>
files == <<checkpoint, output, errlog>>
started == <<restarts, faults, created, terminated, found>>
Incidents == restarts + faults + created
locals == <<index, start_index, csv_exists, success_count, fail_count, total_snapshots,
            domain, df, exc, snapshots, data, snap_i, pending, err_msg>>
history == <<fetches, fetch_log, queried, entry, outcome, handled, events>>
parser == <<text, rules, current_agent, line_no, parsed, placed>>
batch == <<inputs, files, pc, locals, started, history>>
vars == <<batch, parser>>

AbsentFile == [exists |-> FALSE, text |-> <<>>, lines |-> <<>>]
Disk == [checkpoint |-> checkpoint, output |-> output, errlog |-> errlog]
NoEntry == [success |-> 0, fail |-> 0, total |-> 0, output |-> AbsentFile, errlog |-> AbsentFile]

\* parse_robots_txt has not been called
ParserIdle ==
    /\ text = <<>> /\ rules = <<>> /\ current_agent = None
    /\ line_no = 0 /\ parsed = None /\ placed = {}

\* The memory of a process that has not started
FreshLocals ==
    /\ index = 0 /\ start_index = 0 /\ csv_exists = FALSE
    /\ success_count = 0 /\ fail_count = 0 /\ total_snapshots = 0
    /\ domain = <<>> /\ df = <<>> /\ exc = <<>>
    /\ snapshots = <<>> /\ data = <<>> /\ snap_i = 1
    /\ pending = <<>> /\ err_msg = <<>>
    /\ fetches = 0 /\ fetch_log = <<>> /\ queried = "no" /\ entry = NoEntry /\ outcome = "none"
    /\ handled = <<>> /\ events = {}

ResetLocals ==
    /\ index' = 0 /\ start_index' = 0 /\ csv_exists' = FALSE
    /\ success_count' = 0 /\ fail_count' = 0 /\ total_snapshots' = 0
    /\ domain' = <<>> /\ df' = <<>> /\ exc' = <<>>
    /\ snapshots' = <<>> /\ data' = <<>> /\ snap_i' = 1
    /\ pending' = <<>> /\ err_msg' = <<>>
    /\ fetches' = 0 /\ fetch_log' = <<>> /\ queried' = "no" /\ entry' = NoEntry /\ outcome' = "none"
    /\ handled' = <<>> /\ events' = {}

Init ==
    /\ \E rows \in { r \in [1..NumDomains -> UNION { BatchRowChoices(i) : i \in 1..NumDomains }] :
                        \A i \in 1..NumDomains : r[i] \in BatchRowChoices(i) } :
          /\ cells = [i \in 1..NumDomains |-> rows[i].cell]
          /\ archive = [i \in 1..NumDomains |-> rows[i].reply]
    /\ input_state \in {"ok", "missing_file", "no_column"}
    /\ output_dir \in BOOLEAN
    /\ checkpoint = AbsentFile /\ output = AbsentFile /\ errlog = AbsentFile
    /\ pc = "idle"
    /\ FreshLocals
    /\ restarts = 0 /\ faults = 0 /\ created = 0 /\ terminated = 0
    /\ found = [checkpoint |-> AbsentFile, output |-> AbsentFile, errlog |-> AbsentFile]
    /\ ParserIdle

\* ------------------------------------------------------------ batch runner helpers
\* str(row["domain"]).strip()
StrOfCell(c) == IF c.isna THEN Str("nan") ELSE c.text
DomainOf(c) == Strip(StrOfCell(c))

\* domain == "" or pd.isna(domain); pd.isna of a str is False
IsBlank(d) == d = <<>>

\* Mutant: the resume point is taken one row too early
BeforeStartOffByOne(i, start) == i + 1 < start

\* index < start_index
BeforeStart(i, start) == i < start

\* Mutant: a checkpoint that is no integer resumes after the first row
StartIndexOfInvalidSkips(file) ==
    IF file.exists
    THEN LET p == ParseInt(Strip(file.text)) IN IF p.ok THEN p.val ELSE 1
    ELSE 0

\* Load checkpoint if exists
StartIndexOf(file) ==
    IF file.exists
    THEN LET p == ParseInt(Strip(file.text)) IN IF p.ok THEN p.val ELSE 0
    ELSE 0

\* open(path, mode): 'w' creates or truncates, 'a' creates or keeps
OpenFile(file, mode) ==
    IF mode = "w" THEN [exists |-> TRUE, text |-> <<>>, lines |-> <<>>]
    ELSE [file EXCEPT !.exists = TRUE]

\* mode = 'a' if csv_exists else 'w'
WriteMode(exists) == IF exists THEN "a" ELSE "w"

\* header=not csv_exists
WithHeader(exists) == ~exists

\* The directives of the format '%Y%m%d%H%M%S': the largest value of each
\* and the smallest value of its one-digit form
DIRECTIVES ==
    <<[name |-> "Y", max |-> 9999, one |-> 0], [name |-> "m", max |-> 12, one |-> 1],
      [name |-> "d", max |-> 31, one |-> 1], [name |-> "H", max |-> 23, one |-> 0],
      [name |-> "M", max |-> 59, one |-> 0], [name |-> "S", max |-> 61, one |-> 0]>>

AllDigits(s) == \A i \in 1..Len(s) : IsDigit(s[i])

\* The ways directive k matches at position p of ts, in the order they are
\* tried: [val, next].  %Y takes four digits; the others take two digits in
\* their range (a two-digit month or day is not 00), else one digit; %d also
\* takes a space and a digit.
FieldOptions(k, ts, p) ==
    LET dir == DIRECTIVES[k]
        has(n) == p + n - 1 <= Len(ts) /\ AllDigits(SubSeq(ts, p, p + n - 1))
        val(n) == DigitsValue(SubSeq(ts, p, p + n - 1))
    IN IF k = 1
       THEN IF has(4) THEN <<[val |-> val(4), next |-> p + 4]>> ELSE <<>>
       ELSE (IF has(2) /\ val(2) >= dir.one /\ val(2) <= dir.max
             THEN <<[val |-> val(2), next |-> p + 2]>> ELSE <<>>)
            \o (IF has(1) /\ val(1) >= dir.one
                THEN <<[val |-> val(1), next |-> p + 1]>> ELSE <<>>)
            \o (IF k = 3 /\ p + 1 <= Len(ts) /\ ts[p] = " " /\ IsDigit(ts[p + 1])
                   /\ DigitOf(ts[p + 1]) >= dir.one
                THEN <<[val |-> DigitOf(ts[p + 1]), next |-> p + 2]>> ELSE <<>>)

\* The first match of directives k..6 from position p: None, or the values
\* and the position after them
RECURSIVE MatchFrom(_, _, _)
RECURSIVE FirstOption(_, _, _, _)
MatchFrom(k, ts, p) ==
    IF k > Len(DIRECTIVES) THEN Some([vals |-> <<>>, end |-> p])
    ELSE FirstOption(k, ts, FieldOptions(k, ts, p), 1)
FirstOption(k, ts, options, n) ==
    IF n > Len(options) THEN None
    ELSE LET rest == MatchFrom(k + 1, ts, options[n].next) IN
         IF rest # None
         THEN Some([vals |-> <<options[n].val>> \o rest[1].vals, end |-> rest[1].end])
         ELSE FirstOption(k, ts, options, n + 1)

IsLeap(y) == y % 4 = 0 /\ (y % 100 # 0 \/ y % 400 = 0)
DaysInMonth(y, m) ==
    IF m = 2 THEN (IF IsLeap(y) THEN 29 ELSE 28)
    ELSE IF m \in {4, 6, 9, 11} THEN 30 ELSE 31

\* pd.to_datetime(ts, format='%Y%m%d%H%M%S', errors='coerce'); None is NaT,
\* a datetime is written as to_csv writes it
ToDatetime(ts) ==
    LET m == MatchFrom(1, ts, 1) IN
    IF m = None THEN None
    ELSE LET v == m[1].vals IN
         IF m[1].end # Len(ts) + 1 \/ v[1] < 1 \/ v[3] > DaysInMonth(v[1], v[2]) \/ v[6] > 59
         THEN None
         ELSE Some(ZeroFill(v[1], 4) \o <<"-">> \o ZeroFill(v[2], 2) \o <<"-">>
                   \o ZeroFill(v[3], 2) \o <<" ">> \o ZeroFill(v[4], 2) \o <<":">>
                   \o ZeroFill(v[5], 2) \o <<":">> \o ZeroFill(v[6], 2))

\* Mutant: the derived column is not added
AddDatetimeOmitted(frame) == frame

\* df['datetime'] = ...
AddDatetime(frame) ==
    [i \in 1..Len(frame) |->
        [c \in DOMAIN frame[i] \cup {"datetime"} |->
            IF c = "datetime" THEN ToDatetime(frame[i].timestamp) ELSE frame[i][c]]]

\* The column names of a frame, in order
Columns ==
    <<"domain", "timestamp", "scraped_url", "robots_txt", "raw_robots_response_text",
      "robots_content_type", "robots_rules", "meta_robots", "x_robots_tag",
      "status_robots", "status_home", "error_details", "datetime">>

\* df.to_csv(f, index=False, header=...): the lines written; src is the row
\* label of the domain that wrote the line (not part of the file)
CsvLines(frame, header, src) ==
    (IF header THEN <<[kind |-> "header", src |-> src, cells |-> Columns]>> ELSE <<>>)
    \o [i \in 1..Len(frame) |-> [kind |-> "row", src |-> src, cells |-> frame[i]]]

\* f"{domain}: {reason}\n"
ErrLine(d, reason, src) == [src |-> src, text |-> d \o Str(": ") \o reason]

\* Mutants: the checkpoint names the row after the next one; the row just done
NextCheckpointSkipsOne(i) == StrOfNat(i + 2)
NextCheckpointStale(i) == StrOfNat(i)

\* Mutant: every write names the second row
NextCheckpointFixed(i) == StrOfNat(1)

\* str(index + 1)
NextCheckpoint(i) == StrOfNat(i + 1)

\* output_csv, as the module's own call gives it
OUTPUT_CSV == Str("data/processed/robots_wayback_analysis.csv")

\* str(e) of the FileNotFoundError of open() and of the OSError of a write
OpenErrorMessage ==
    Str("[Errno 2] No such file or directory: '") \o OUTPUT_CSV \o <<"'">>
WriteErrorMessage == Str("[Errno 28] No space left on device")

\* Mutant: the checkpoint file is left in place
RemoveIfExistsKeeps(file) == file

\* if os.path.exists(checkpoint_file): os.remove(checkpoint_file)
RemoveIfExists(file) == IF file.exists THEN AbsentFile ELSE file

\* ------------------------------------------------------------ batch_scrape_domains
\* Mutant: the 'domain' column is not looked for
ReadInputUnchecked ==
    /\ pc = "idle"
    /\ pc' = IF input_state = "missing_file" THEN "done" ELSE "load"
    /\ UNCHANGED <<parser, inputs, started, files, locals, history>>

\* Process start: read the input file (missing file or column: return)
ReadInput ==
    /\ pc = "idle"
    /\ pc' = IF input_state = "ok" THEN "load" ELSE "done"
    /\ UNCHANGED <<parser, inputs, started, files, locals, history>>

\* Load the checkpoint, probe the output file, zero the counters
LoadCheckpoint ==
    /\ pc = "load"
    /\ start_index' = StartIndexOf(checkpoint)
    /\ csv_exists' = output.exists
    /\ success_count' = 0 /\ fail_count' = 0 /\ total_snapshots' = 0
    /\ index' = 0
    /\ pc' = "loop"
    /\ UNCHANGED <<parser, inputs, started, files, domain, df, exc, snapshots, data, snap_i,
                   pending, err_msg, history>>

\* for index, row in domains_df.iterrows(): the list is exhausted
EndOfList ==
    /\ pc = "loop"
    /\ index >= Len(cells)
    /\ pc' = "finish"
    /\ UNCHANGED <<parser, inputs, started, files, locals, history>>

\* if index < start_index: continue
SkipBeforeStart ==
    /\ pc = "loop"
    /\ index < Len(cells)
    /\ BeforeStart(index, start_index)
    /\ index' = index + 1
    /\ UNCHANGED <<parser, inputs, started, files, pc, start_index, csv_exists, success_count,
                   fail_count, total_snapshots, domain, df, exc, snapshots, data, snap_i,
                   pending, err_msg, history>>

\* if domain == "" or pd.isna(domain): continue
SkipBlank ==
    /\ pc = "loop"
    /\ index < Len(cells)
    /\ ~BeforeStart(index, start_index)
    /\ IsBlank(DomainOf(cells[index + 1]))
    /\ domain' = DomainOf(cells[index + 1])
    /\ index' = index + 1
    /\ UNCHANGED <<parser, inputs, started, files, pc, start_index, csv_exists, success_count,
                   fail_count, total_snapshots, df, exc, snapshots, data, snap_i,
                   pending, err_msg, history>>

\* The domain is taken up: scrape_robots_and_signals is called
BeginDomain ==
    /\ pc = "loop"
    /\ index < Len(cells)
    /\ ~BeforeStart(index, start_index)
    /\ ~IsBlank(DomainOf(cells[index + 1]))
    /\ domain' = DomainOf(cells[index + 1])
    /\ pc' = "scrape"
    /\ fetches' = 0 /\ fetch_log' = <<>> /\ queried' = "no" /\ outcome' = "none"
    /\ entry' = [success |-> success_count, fail |-> fail_count, total |-> total_snapshots,
                 output |-> output, errlog |-> errlog]
    /\ events' = events \cup {<<"invoke", index>>}
    /\ UNCHANGED <<parser, inputs, started, files, index, start_index, csv_exists, success_count,
                   fail_count, total_snapshots, df, exc, snapshots, data, snap_i,
                   pending, err_msg, handled>>

\* scrape_robots_and_signals up to the loop: clean the domain, query the snapshots
QuerySnapshots(Replies) ==
    /\ pc = "scrape"
    /\ IF CleanDomain(domain) = <<>>
       THEN /\ df' = <<>> /\ pc' = "got"
            /\ UNCHANGED <<exc, snapshots, data, snap_i, queried>>
       ELSE \E reply \in Replies :
            LET q == get_cdx_snapshots(reply) IN
            IF q.raises
            THEN /\ exc' = q.msg /\ pc' = "except" /\ queried' = "raised"
                 /\ UNCHANGED <<df, snapshots, data, snap_i>>
            ELSE IF q.snapshots = <<>>
            THEN /\ df' = <<>> /\ pc' = "got" /\ queried' = "zero"
                 /\ UNCHANGED <<exc, snapshots, data, snap_i>>
            ELSE /\ snapshots' = q.snapshots /\ data' = <<>> /\ snap_i' = 1
                 /\ pc' = "snap" /\ queried' = "some"
                 /\ UNCHANGED <<df, exc>>
    /\ UNCHANGED <<parser, inputs, started, files, index, start_index, csv_exists, success_count,
                   fail_count, total_snapshots, domain, pending, err_msg, fetches,
                   fetch_log, entry, outcome, handled, events>>

\* Mutant: a snapshot whose fetch raised gets no record
FetchSnapshotDropsFailed(RobotsOutcomes, HomeOutcomes) ==
    /\ pc = "snap"
    /\ snap_i <= Len(snapshots)
    /\ \E ro \in RobotsOutcomes, ho \in HomeOutcomes :
          LET t == TrySnapshot(ro, ho) IN
          /\ data' = IF t.loc.error_details # None THEN data
                     ELSE Append(data, MakeRecord(domain, snapshots[snap_i], t.loc))
          /\ fetches' = fetches + t.fetches
          /\ fetch_log' = Append(fetch_log,
                                  [robots |-> ro, home |-> IF ro.raises THEN NotFetched ELSE ho])
    /\ snap_i' = snap_i + 1
    /\ UNCHANGED <<parser, inputs, started, files, pc, index, start_index, csv_exists,
                   success_count, fail_count, total_snapshots, domain, df, exc,
                   snapshots, pending, err_msg, queried, entry, outcome, handled, events>>

\* One iteration of "for snap in snapshots"
FetchSnapshot(RobotsOutcomes, HomeOutcomes) ==
    /\ pc = "snap"
    /\ snap_i <= Len(snapshots)
    /\ \E ro \in RobotsOutcomes, ho \in HomeOutcomes :
          LET t == TrySnapshot(ro, ho) IN
          /\ data' = Append(data, MakeRecord(domain, snapshots[snap_i], t.loc))
          /\ fetches' = fetches + t.fetches
          /\ fetch_log' = Append(fetch_log,
                                  [robots |-> ro, home |-> IF ro.raises THEN NotFetched ELSE ho])
    /\ snap_i' = snap_i + 1
    /\ UNCHANGED <<parser, inputs, started, files, pc, index, start_index, csv_exists,
                   success_count, fail_count, total_snapshots, domain, df, exc,
                   snapshots, pending, err_msg, queried, entry, outcome, handled, events>>

\* return pd.DataFrame(data)
ReturnData ==
    /\ pc = "snap"
    /\ snap_i > Len(snapshots)
    /\ df' = data
    /\ pc' = "got"
    /\ UNCHANGED <<parser, inputs, started, files, index, start_index, csv_exists, success_count,
                   fail_count, total_snapshots, domain, exc, snapshots, data, snap_i,
                   pending, err_msg, history>>

\* if not df.empty: add the datetime column, open the output file, start to_csv
OpenOutput ==
    /\ pc = "got"
    /\ df # <<>>
    /\ output_dir
    /\ df' = AddDatetime(df)
    /\ output' = OpenFile(output, WriteMode(csv_exists))
    /\ pending' = CsvLines(df', WithHeader(csv_exists), index)
    /\ pc' = "write"
    /\ UNCHANGED <<parser, inputs, started, checkpoint, errlog, index, start_index, csv_exists,
                   success_count, fail_count, total_snapshots, domain, exc, snapshots,
                   data, snap_i, err_msg, history>>

\* open(output_csv, mode) raises: the directory of the path does not exist
OpenOutputFails ==
    /\ pc = "got"
    /\ df # <<>>
    /\ ~output_dir
    /\ df' = AddDatetime(df)
    /\ exc' = OpenErrorMessage
    /\ pc' = "except"
    /\ UNCHANGED <<parser, inputs, started, files, index, start_index,
                   csv_exists, success_count, fail_count, total_snapshots, domain, snapshots,
                   data, snap_i, pending, err_msg, history>>

\* to_csv raises at the next line: the lines written so far stay in the file,
\* which the with statement closes
WriteFails ==
    /\ pc = "write"
    /\ pending # <<>>
    /\ Incidents < MaxIncidents
    /\ faults' = faults + 1
    /\ pending' = <<>>
    /\ exc' = WriteErrorMessage
    /\ pc' = "except"
    /\ UNCHANGED <<parser, inputs, restarts, created, terminated, found, files, index, start_index,
                   csv_exists, success_count, fail_count, total_snapshots, domain, df,
                   snapshots, data, snap_i, err_msg, history>>

\* The next line of to_csv reaches the file
WriteLine ==
    /\ pc = "write"
    /\ pending # <<>>
    /\ output' = [output EXCEPT !.lines = Append(@, Head(pending))]
    /\ pending' = Tail(pending)
    /\ events' = events \cup {<<Head(pending).kind, index>>}
    /\ UNCHANGED <<parser, inputs, started, checkpoint, errlog, pc, index, start_index,
                   csv_exists, success_count, fail_count, total_snapshots, domain, df,
                   exc, snapshots, data, snap_i, err_msg, fetches, fetch_log, queried,
                   entry, outcome, handled>>

\* The file is closed: csv_exists = True, the counters advance
CloseOutput ==
    /\ pc = "write"
    /\ pending = <<>>
    /\ csv_exists' = TRUE
    /\ total_snapshots' = total_snapshots + Len(df)
    /\ success_count' = success_count + 1
    /\ outcome' = "records"
    /\ pc' = "ckpt_open"
    /\ UNCHANGED <<parser, inputs, started, files, index, start_index, fail_count, domain, df,
                   exc, snapshots, data, snap_i, pending, err_msg, fetches, fetch_log,
                   queried, entry, handled, events>>

\* Mutant: the empty result is logged but not counted as a failure
NoRecordsUncounted ==
    /\ pc = "got"
    /\ df = <<>>
    /\ fail_count' = fail_count
    /\ err_msg' = Str("No snapshots")
    /\ outcome' = "empty"
    /\ pc' = "log_open"
    /\ UNCHANGED <<parser, inputs, started, files, index, start_index, csv_exists, success_count,
                   total_snapshots, domain, df, exc, snapshots, data, snap_i, pending,
                   fetches, fetch_log, queried, entry, handled, events>>

\* else: fail_count += 1, and "No snapshots" goes to the error log
NoRecords ==
    /\ pc = "got"
    /\ df = <<>>
    /\ fail_count' = fail_count + 1
    /\ err_msg' = Str("No snapshots")
    /\ outcome' = "empty"
    /\ pc' = "log_open"
    /\ UNCHANGED <<parser, inputs, started, files, index, start_index, csv_exists, success_count,
                   total_snapshots, domain, df, exc, snapshots, data, snap_i, pending,
                   fetches, fetch_log, queried, entry, handled, events>>

\* except Exception as e: fail_count += 1, and str(e) goes to the error log
CatchException ==
    /\ pc = "except"
    /\ fail_count' = fail_count + 1
    /\ err_msg' = exc
    /\ outcome' = "exception"
    /\ pc' = "log_open"
    /\ UNCHANGED <<parser, inputs, started, files, index, start_index, csv_exists, success_count,
                   total_snapshots, domain, df, exc, snapshots, data, snap_i, pending,
                   fetches, fetch_log, queried, entry, handled, events>>

\* with open(error_log_file, 'a')
OpenErrLog ==
    /\ pc = "log_open"
    /\ errlog' = OpenFile(errlog, "a")
    /\ pc' = "log_write"
    /\ UNCHANGED <<parser, inputs, started, checkpoint, output, locals, history>>

\* err_log.write(...)
WriteErrLine ==
    /\ pc = "log_write"
    /\ errlog' = [errlog EXCEPT !.lines = Append(@, ErrLine(domain, err_msg, index))]
    /\ events' = events \cup {<<"log", index>>}
    /\ pc' = "ckpt_open"
    /\ UNCHANGED <<parser, inputs, started, checkpoint, output, locals, fetches, fetch_log,
                   queried, entry, outcome, handled>>

\* with open(checkpoint_file, 'w'): the file is truncated
OpenCheckpoint ==
    /\ pc = "ckpt_open"
    /\ checkpoint' = OpenFile(checkpoint, "w")
    /\ pc' = "ckpt_write"
    /\ UNCHANGED <<parser, inputs, started, output, errlog, locals, history>>

\* f.write(str(index + 1)); the domain is finished
WriteCheckpoint ==
    /\ pc = "ckpt_write"
    /\ checkpoint' = [checkpoint EXCEPT !.text = NextCheckpoint(index)]
    /\ handled' = Append(handled, <<index, outcome>>)
    /\ pc' = "sleep"
    /\ UNCHANGED <<parser, inputs, started, output, errlog, locals, fetches, fetch_log, queried,
                   entry, outcome, events>>

\* time.sleep(...), then the next row
Sleep ==
    /\ pc = "sleep"
    /\ index' = index + 1
    /\ pc' = "loop"
    /\ UNCHANGED <<parser, inputs, started, files, start_index, csv_exists, success_count,
                   fail_count, total_snapshots, domain, df, exc, snapshots, data, snap_i,
                   pending, err_msg, history>>

\* After the loop: remove the checkpoint file if it exists
Finish ==
    /\ pc = "finish"
    /\ checkpoint' = RemoveIfExists(checkpoint)
    /\ pc' = "done"
    /\ UNCHANGED <<parser, inputs, started, output, errlog, locals, history>>

\* The process is terminated: its memory is lost, the files stay as they are.
\* The program is then started again.
Crash ==
    /\ pc \notin {"idle", "done", "raised"}
    /\ Incidents < MaxIncidents
    /\ restarts' = restarts + 1
    /\ terminated' = terminated + 1
    /\ found' = Disk
    /\ ResetLocals
    /\ pc' = "idle"
    /\ UNCHANGED <<parser, inputs, files, faults, created>>

\* The program is started again after a run that returned or raised
Rerun ==
    /\ pc \in {"done", "raised"}
    /\ Incidents < MaxIncidents
    /\ restarts' = restarts + 1
    /\ found' = Disk
    /\ ResetLocals
    /\ pc' = "idle"
    /\ UNCHANGED <<parser, inputs, files, faults, created, terminated>>

\* ensure_dir_exists(path), called for the directory of output_csv before
\* batch_scrape_domains is called: the directory is made unless it exists
ensure_dir_exists ==
    /\ pc = "idle"
    /\ IF ~output_dir
       THEN /\ Incidents < MaxIncidents
            /\ output_dir' = TRUE
            /\ created' = created + 1
       ELSE UNCHANGED <<output_dir, created>>
    /\ UNCHANGED <<parser, cells, archive, input_state, files, pc, locals, restarts, faults,
                   terminated, found, history>>

Next ==
    \/ ensure_dir_exists
    \/ ReadInput
    \/ LoadCheckpoint
    \/ EndOfList
    \/ SkipBeforeStart
    \/ SkipBlank
    \/ BeginDomain
    \/ QuerySnapshots({archive[index + 1]})
    \/ FetchSnapshot(BatchRobotsOutcomes, BatchHomeOutcomes)
    \/ ReturnData
    \/ OpenOutput
    \/ OpenOutputFails
    \/ WriteLine
    \/ WriteFails
    \/ CloseOutput
    \/ NoRecords
    \/ CatchException
    \/ OpenErrLog
    \/ WriteErrLine
    \/ OpenCheckpoint
    \/ WriteCheckpoint
    \/ Sleep
    \/ Finish
    \/ Crash
    \/ Rerun

Spec == Init /\ [][Next]_vars

\* ------------------------------------------------------------ failures of the log and the checkpoint
ERROR_LOG_FILE == Str("scraping_errors.txt")
ErrLogOpenMessage ==
    Str("[Errno 13] Permission denied: '") \o ERROR_LOG_FILE \o <<"'">>

\* Where an OSError of the error-log statements goes: those of the else branch
\* (lines 381-382) are inside the try and reach except Exception; those of
\* the handler (lines 387-388) leave batch_scrape_domains, which ends the run
AfterErrLogFailure == IF outcome = "empty" THEN "except" ELSE "raised"

\* open(error_log_file, 'a') raises: the file is as it was
OpenErrLogFails ==
    /\ pc = "log_open"
    /\ Incidents < MaxIncidents
    /\ faults' = faults + 1
    /\ exc' = IF outcome = "empty" THEN ErrLogOpenMessage ELSE exc
    /\ pc' = AfterErrLogFailure
    /\ UNCHANGED <<parser, inputs, restarts, created, terminated, found, files, index,
                   start_index, csv_exists, success_count, fail_count, total_snapshots,
                   domain, df, snapshots, data, snap_i, pending, err_msg, history>>

\* err_log.write(...) or the close of the file raises: the line is not written
WriteErrLineFails ==
    /\ pc = "log_write"
    /\ Incidents < MaxIncidents
    /\ faults' = faults + 1
    /\ exc' = IF outcome = "empty" THEN WriteErrorMessage ELSE exc
    /\ pc' = AfterErrLogFailure
    /\ UNCHANGED <<parser, inputs, restarts, created, terminated, found, files, index,
                   start_index, csv_exists, success_count, fail_count, total_snapshots,
                   domain, df, snapshots, data, snap_i, pending, err_msg, history>>

\* open(checkpoint_file, 'w') raises, outside any try: the file is as it was
\* and the run ends
OpenCheckpointFails ==
    /\ pc = "ckpt_open"
    /\ Incidents < MaxIncidents
    /\ faults' = faults + 1
    /\ pc' = "raised"
    /\ UNCHANGED <<parser, inputs, restarts, created, terminated, found, files, locals,
                   history>>

\* f.write(str(index + 1)) or the close of the file raises: the file stays
\* truncated and the run ends
WriteCheckpointFails ==
    /\ pc = "ckpt_write"
    /\ Incidents < MaxIncidents
    /\ faults' = faults + 1
    /\ pc' = "raised"
    /\ UNCHANGED <<parser, inputs, restarts, created, terminated, found, files, locals,
                   history>>

NextFaults ==
    \/ Next
    \/ OpenErrLogFails
    \/ WriteErrLineFails
    \/ OpenCheckpointFails
    \/ WriteCheckpointFails

SpecFaults == Init /\ [][NextFaults]_vars

\* ------------------------------------------------------------ one call of the orchestrator
\* The domains given to scrape_robots_and_signals
ScrapeDomains == { Str("https://a.com/"), Str("http://") }

InitScrape ==
    /\ \E d \in ScrapeDomains, reply \in AllReplies :
          /\ cells = <<Cell(d)>>
          /\ archive = <<reply>>
    /\ input_state = "ok" /\ output_dir = TRUE
    /\ checkpoint = AbsentFile /\ output = AbsentFile /\ errlog = AbsentFile
    /\ pc = "idle"
    /\ FreshLocals
    /\ restarts = 0 /\ faults = 0 /\ created = 0 /\ terminated = 0
    /\ found = [checkpoint |-> AbsentFile, output |-> AbsentFile, errlog |-> AbsentFile]
    /\ ParserIdle

NextScrape ==
    \/ ReadInput
    \/ LoadCheckpoint
    \/ BeginDomain
    \/ QuerySnapshots({archive[index + 1]})
    \/ FetchSnapshot(AllRobotsOutcomes, AllHomeOutcomes)
    \/ ReturnData

SpecScrape == InitScrape /\ [][NextScrape]_vars

\* ------------------------------------------------------------ one run over what is on disk
\* What an earlier campaign left behind (its lines carry the row label -1)
OldRecord ==
    AddDatetime(<<MakeRecord(Str("old.example"),
                             [timestamp |-> SnapEntry(5)[1], original |-> SnapEntry(5)[2]],
                             TrySnapshot(Response(404, PLAIN_HTML_BODY, <<>>),
                                         Response(503, PLAIN_HTML_BODY, <<>>)).loc)>>)[1]
OldOutput ==
    [exists |-> TRUE, text |-> <<>>,
     lines |-> <<[kind |-> "header", src |-> -1, cells |-> Columns],
                 [kind |-> "row", src |-> -1, cells |-> OldRecord]>>]
OldErrLog ==
    [exists |-> TRUE, text |-> <<>>,
     lines |-> <<ErrLine(Str("old.example"), Str("No snapshots"), -1)>>]

CheckpointFile(s) == [exists |-> TRUE, text |-> s, lines |-> <<>>]

\* The files a run can find: nothing; an empty checkpoint; a checkpoint that
\* is no integer; a checkpoint with an index between whitespace; a negative
\* one; an index after a separator, which strip() removes.
DiskChoices ==
    { [checkpoint |-> AbsentFile, output |-> AbsentFile, errlog |-> AbsentFile],
      [checkpoint |-> CheckpointFile(<<>>), output |-> OldOutput, errlog |-> AbsentFile],
      [checkpoint |-> CheckpointFile(Str("1.0")), output |-> OldOutput,
       errlog |-> OldErrLog],
      [checkpoint |-> CheckpointFile(<<"\f", "1", "U+2028", "\n">>), output |-> OldOutput,
       errlog |-> OldErrLog],
      [checkpoint |-> CheckpointFile(Str("-1")), output |-> AbsentFile,
       errlog |-> OldErrLog],
      [checkpoint |-> CheckpointFile(<<"U+001F", "1">>), output |-> AbsentFile,
       errlog |-> AbsentFile] }

InitResume ==
    /\ \E rows \in { r \in [1..NumDomains -> UNION { RowChoices(i) : i \in 1..NumDomains }] :
                        \A i \in 1..NumDomains : r[i] \in RowChoices(i) } :
          /\ cells = [i \in 1..NumDomains |-> rows[i].cell]
          /\ archive = [i \in 1..NumDomains |-> rows[i].reply]
    /\ input_state \in {"ok", "missing_file", "no_column"}
    /\ \E disk \in DiskChoices :
          /\ checkpoint = disk.checkpoint /\ output = disk.output /\ errlog = disk.errlog
          /\ found = disk
          /\ output_dir \in {b \in BOOLEAN : disk.output.exists => b}
    /\ pc = "idle"
    /\ FreshLocals
    /\ restarts = 0 /\ faults = 0 /\ created = 0 /\ terminated = 0
    /\ ParserIdle

NextResume ==
    \/ ensure_dir_exists
    \/ ReadInput
    \/ LoadCheckpoint
    \/ EndOfList
    \/ SkipBeforeStart
    \/ SkipBlank
    \/ BeginDomain
    \/ QuerySnapshots({archive[index + 1]})
    \/ FetchSnapshot(BatchRobotsOutcomes, BatchHomeOutcomes)
    \/ ReturnData
    \/ OpenOutput
    \/ OpenOutputFails
    \/ WriteLine
    \/ WriteFails
    \/ CloseOutput
    \/ NoRecords
    \/ CatchException
    \/ OpenErrLog
    \/ WriteErrLine
    \/ OpenCheckpoint
    \/ WriteCheckpoint
    \/ Sleep
    \/ Finish

SpecResume == InitResume /\ [][NextResume]_vars

\* ------------------------------------------------------------ parse_robots_txt, line by line
MaxLines == 3

\* The lines of a robots.txt: blank, comment, four user-agent lines (the key
\* "*" twice, in two spellings; the key "bot"; an empty key) and two others.
LineChoices ==
    { <<>>,
      Str(" # note"),
      Str("User-Agent: *"),
      Str("USER-AGENT:* "),
      Str("user-agent: bot"),
      Str("user-agent: "),
      <<"\f">> \o Str("Disallow: /a "),
      Str("Allow: /b") }

\* The batch runner is not running
BatchIdle ==
    /\ cells = <<>> /\ archive = <<>> /\ input_state = "ok" /\ output_dir = TRUE
    /\ checkpoint = AbsentFile /\ output = AbsentFile /\ errlog = AbsentFile
    /\ pc = "idle"
    /\ FreshLocals
    /\ restarts = 0 /\ faults = 0 /\ created = 0 /\ terminated = 0
    /\ found = [checkpoint |-> AbsentFile, output |-> AbsentFile, errlog |-> AbsentFile]

InitParse ==
    /\ \E lines \in SeqsUpTo(LineChoices, MaxLines) \ {<<>>} : text = Join(lines, <<"\n">>)
    /\ rules = <<>> /\ current_agent = None
    /\ line_no = 0 /\ parsed = None /\ placed = {}
    /\ BatchIdle

\* The keys whose list is longer in dict d2 than in dict d1
Grown(d1, d2) ==
    { d2[i].key : i \in { j \in 1..Len(d2) :
          Len(d2[j].val) > (IF DictHas(d1, d2[j].key) THEN Len(DictGet(d1, d2[j].key))
                            ELSE 0) } }

\* One iteration of "for line in text.split('\n')"
ParseStep ==
    /\ parsed = None
    /\ line_no < Len(Split(text, "\n"))
    /\ LET st == ParseLine([rules |-> rules, current_agent |-> current_agent],
                           Split(text, "\n")[line_no + 1])
       IN /\ rules' = st.rules
          /\ current_agent' = st.current_agent
          /\ placed' = placed \cup { <<line_no + 1, k>> : k \in Grown(rules, st.rules) }
    /\ line_no' = line_no + 1
    /\ UNCHANGED <<batch, text, parsed>>

\* return rules
ParseReturn ==
    /\ parsed = None
    /\ line_no = Len(Split(text, "\n"))
    /\ parsed' = Some(rules)
    /\ UNCHANGED <<batch, text, rules, current_agent, line_no, placed>>

NextParse ==
    \/ ParseStep
    \/ ParseReturn

SpecParse == InitParse /\ [][NextParse]_vars

\* ------------------------------------------------------------ properties
Rows(i) == { p \in 1..Len(output.lines) : output.lines[p].kind = "row" /\ output.lines[p].src = i }
Headers == { p \in 1..Len(output.lines) : output.lines[p].kind = "header" }
Logged(i) == { p \in 1..Len(errlog.lines) : errlog.lines[p].src = i }
NonBlank(i) == ~IsBlank(DomainOf(cells[i + 1]))
LastHandled == handled[Len(handled)]

\* What the archive holds for row i: the entries of its reply
ArchiveEntries(i) ==
    IF archive[i + 1].kind = "json" /\ Len(archive[i + 1].results) > 1
       /\ archive[i + 1].results[1] = CdxKeys
    THEN Tail(archive[i + 1].results)
    ELSE <<>>

\* Every snapshot of row i has a row in the output dataset
RecordsAppended(i) ==
    /\ ArchiveEntries(i) # <<>>
    /\ \A k \in 1..Len(ArchiveEntries(i)) :
          \E p \in Rows(i) : output.lines[p].cells.timestamp = ArchiveEntries(i)[k][1]

\* Some record of row i is in the output dataset more than once
Duplicated(i) ==
    \E p, q \in Rows(i) :
        p < q /\ output.lines[p].cells.timestamp = output.lines[q].cells.timestamp

\* C1: a run that read checkpoint k (start_index) never invokes the
\* orchestrator for, writes an output line for, or writes an error-log line
\* for a row whose index is below k.
C1_NoReprocessingBelowCheckpoint == \A e \in events : e[2] >= start_index

C1_Witness ==
    /\ terminated = 1 /\ start_index = 1
    /\ <<"invoke", 1>> \in events /\ <<"row", 1>> \in events

\* C2: whenever the checkpoint file holds an integer k, every row below k with
\* a non-blank domain has all its records in the output dataset or a line in
\* the error log, in every state, across terminations and restarts.
C2_NoSilentSkip ==
    (checkpoint.exists /\ ParseInt(checkpoint.text).ok) =>
        \A i \in 0..(ParseInt(checkpoint.text).val - 1) :
            /\ i < Len(cells)
            /\ NonBlank(i) => (RecordsAppended(i) \/ Logged(i) # {})

C2_Witness ==
    /\ terminated = 1 /\ pc = "loop"
    /\ checkpoint.exists /\ checkpoint.text = <<"2">>
    /\ NonBlank(0) /\ NonBlank(1)
    /\ RecordsAppended(0) /\ Logged(1) # {}

\* C3: after one termination and a resumed run that completes, at most one
\* row has records in the output dataset more than once.
C3_AtMostOneDomainDuplicated ==
    (pc = "done" /\ input_state = "ok" /\ restarts = 1 /\ terminated = 1) =>
        Cardinality({ i \in 0..(Len(cells) - 1) : Duplicated(i) }) <= 1

\* C4: once a domain at index i is finished, and until the next one is taken
\* up, the checkpoint file holds exactly i + 1, whatever the outcome was.
C4_CheckpointIsNextIndex ==
    (handled # <<>> /\ pc \in {"sleep", "loop"}) =>
        /\ checkpoint.exists
        /\ ParseInt(checkpoint.text) = [ok |-> TRUE, val |-> LastHandled[1] + 1]
        /\ LastHandled[2] \in {"records", "empty", "exception"}

C4_Witness ==
    /\ pc = "loop" /\ Len(handled) = 2
    /\ handled[1][2] = "records" /\ handled[2][2] = "exception"

\* C5: when a run has gone through the whole list and returned, the
\* checkpoint file does not exist, whatever the start index was.
C5_CheckpointDeletedOnCompletion ==
    (pc = "done" /\ input_state = "ok") => ~checkpoint.exists

C5_Witness ==
    /\ pc = "done" /\ input_state = "ok"
    /\ terminated = 1 /\ start_index >= Len(cells)
    /\ errlog.lines # <<>> /\ output.lines # <<>>

\* C6: the output dataset that holds records starts with the header and holds
\* the header exactly once, over any sequence of runs.
C6_HeaderExactlyOnce ==
    (\E p \in 1..Len(output.lines) : output.lines[p].kind = "row") =>
        (output.lines[1].kind = "header" /\ Cardinality(Headers) = 1)

C8_OneRecordPerSnapshot ==
    /\ pc = "snap" => Len(data) = snap_i - 1
    /\ \A i \in 1..Len(data) :
          /\ i <= Len(ArchiveEntries(index))
          /\ data[i].timestamp = ArchiveEntries(index)[i][1]
          /\ data[i].scraped_url = ArchiveEntries(index)[i][2]
    /\ (pc = "got" /\ queried = "some") =>
          (df = data /\ Len(df) = Len(ArchiveEntries(index)))

C8_Witness ==
    /\ pc = "got" /\ queried = "some" /\ Len(df) = 2
    /\ df[1].error_details # None /\ df[1].status_robots = None
    /\ df[2].error_details = None
    /\ df[1].timestamp # df[2].timestamp

IsTimeout(o) == o.raises /\ "Timeout" \in o.classes

\* What is kept of a robots.txt response
KeptOfRobots(r) ==
    IF r.status # 200
    THEN [type |-> Str("HTTP_Error_404"), text |-> None, rules |-> None]
    ELSE IF r.body = ROBOTS_BODY
    THEN [type |-> Str("robots.txt"), text |-> Some(ROBOTS_BODY.text),
          rules |-> Some(Str("{\"*\": [\"Disallow: /admin\"]}"))]
    ELSE [type |-> Str("HTML_page"), text |-> Some(Str("HTML Content (Not robots.txt)")),
          rules |-> None]

\* C9: a snapshot whose fetch raised a timeout has error_details "Timeout";
\* if the robots.txt fetch raised it, both statuses are absent and the content
\* type is "unknown"; if the homepage fetch raised it, what the robots.txt
\* response gave is kept and status_home, meta_robots, x_robots_tag are absent.
C9_TimeoutKeepsPartial ==
    \A i \in 1..Len(data) :
        LET r == data[i]
            f == fetch_log[i]
        IN /\ IsTimeout(f.robots) =>
                /\ r.error_details = Some(Str("Timeout"))
                /\ r.status_robots = None /\ r.status_home = None
                /\ r.robots_content_type = Str("unknown")
           /\ (~f.robots.raises /\ IsTimeout(f.home)) =>
                /\ r.error_details = Some(Str("Timeout"))
                /\ r.status_robots = Some(f.robots.status)
                /\ r.robots_content_type = KeptOfRobots(f.robots).type
                /\ r.robots_txt = KeptOfRobots(f.robots).text
                /\ r.robots_rules = KeptOfRobots(f.robots).rules
                /\ r.status_home = None
                /\ r.meta_robots = None /\ r.x_robots_tag = None

C9_Witness ==
    /\ Len(data) = 2
    /\ IsTimeout(fetch_log[1].robots)
    /\ ~fetch_log[2].robots.raises /\ fetch_log[2].robots.body = ROBOTS_BODY
    /\ fetch_log[2].robots.status = 200
    /\ IsTimeout(fetch_log[2].home) /\ "ConnectionError" \in fetch_log[2].home.classes

\* C10: an exception raised while a domain is processed is caught: the error
\* log gains exactly the line "<domain>: <message>", fail_count gains one,
\* success_count stays, and the run goes on with the next non-blank row (no
\* exception ends the run).
C10_ExceptionCaughtAtBatchBoundary ==
    /\ pc # "raised"
    /\ (outcome = "exception" /\ pc \in {"ckpt_open", "ckpt_write", "sleep"}) =>
          /\ errlog.exists
          /\ errlog.lines =
                Append(entry.errlog.lines, [src |-> index, text |-> domain \o Str(": ") \o exc])
          /\ fail_count = entry.fail + 1
          /\ success_count = entry.success
    /\ (handled # <<>> /\ LastHandled[2] = "exception"
        /\ pc \notin {"idle", "load", "sleep", "done"}) =>
          /\ index > LastHandled[1]
          /\ \A j \in (LastHandled[1] + 1)..(index - 1) : ~NonBlank(j)

\* The domain cell of row i is blank (whitespace only) or missing
BlankOrMissing(i) == cells[i + 1].isna \/ Strip(cells[i + 1].text) = <<>>

\* C11: a row whose domain cell is blank or missing is skipped: the
\* orchestrator is not invoked for it, no output row and no error-log line is
\* written for it, and it is not counted as finished by either counter.
C11_BlankOrMissingSkipped ==
    \A i \in 0..(Len(cells) - 1) :
        BlankOrMissing(i) =>
            /\ <<"invoke", i>> \notin events
            /\ Rows(i) = {} /\ Logged(i) = {}
            /\ \A k \in 1..Len(handled) : handled[k][1] # i

\* Checkpoint contents that int() rejects
NotIntegers == { <<>>, Str("1.0") }

\* Every non-blank row of the list was taken up and finished by this run
AllProcessed ==
    \A i \in 0..(Len(cells) - 1) :
        NonBlank(i) =>
            /\ <<"invoke", i>> \in events
            /\ \E k \in 1..Len(handled) : handled[k][1] = i

\* C12: a run that finds no checkpoint file, or one whose content is not an
\* integer (an empty file included), starts from index 0, and when it returns
\* it has processed every non-blank row of the list.
C12_InvalidCheckpointStartsFromZero ==
    (/\ input_state = "ok" /\ pc \notin {"idle", "load"}
     /\ (~found.checkpoint.exists \/ found.checkpoint.text \in NotIntegers)) =>
        /\ start_index = 0
        /\ \A e \in events : e[2] >= 0
        /\ pc = "done" => AllProcessed

C12_Witness ==
    /\ pc = "done" /\ input_state = "ok"
    /\ found.checkpoint.exists /\ found.checkpoint.text = Str("1.0")
    /\ Len(handled) = Len(cells)
    /\ handled[1][1] = 0

\* C13: when the input file is missing or has no 'domain' column, the run
\* returns at once: the orchestrator is invoked for no row, and the output
\* dataset, the error log and the checkpoint file stay as the run found them.
C13_InputErrorLeavesFilesAlone ==
    input_state # "ok" =>
        /\ pc \in {"idle", "done"}
        /\ events = {} /\ handled = <<>> /\ fetches = 0
        /\ Disk = found

C13_Witness ==
    /\ input_state = "no_column" /\ pc = "done"
    /\ found.checkpoint.exists /\ found.checkpoint.text = <<"\f", "1", "U+2028", "\n">>
    /\ found.output.exists /\ found.errlog.exists
    /\ \E i \in 1..Len(cells) : NonBlank(i - 1)

\* The lines of the text
Lines == Split(text, "\n")

\* The 'user-agent:' lines among the lines of the texts
AgentLines ==
    { Str("User-Agent: *"), Str("USER-AGENT:* "), Str("user-agent: bot"), Str("user-agent: ") }

\* The number of the first 'user-agent:' line of t (Len(t) + 1 if it has none)
FirstAgent(t) ==
    IF \E i \in 1..Len(t) : t[i] \in AgentLines
    THEN CHOOSE i \in 1..Len(t) :
            t[i] \in AgentLines /\ \A j \in 1..(i - 1) : t[j] \notin AgentLines
    ELSE Len(t) + 1

\* C14: in parse_robots_txt, a line is appended to a group only after the
\* first 'user-agent:' line of the text; a group's list is non-empty only if
\* lines were appended to it after such a line; and the result is the same as
\* for the text without the lines before its first 'user-agent:' line.
C14_NoDirectiveBeforeFirstAgent ==
    /\ \A p \in placed : FirstAgent(Lines) < p[1] /\ p[1] <= line_no
    /\ \A i \in 1..Len(rules) :
          rules[i].val # <<>> =>
              /\ FirstAgent(Lines) < line_no
              /\ \E p \in placed : p[2] = rules[i].key
    /\ parsed # None =>
          /\ parsed[1] = rules
          /\ parsed[1] = parse_robots_txt(
                            Join(SubSeq(Lines, FirstAgent(Lines), Len(Lines)), <<"\n">>))

C14_Witness ==
    /\ text = Str("\fDisallow: /a \nUser-Agent: *\nAllow: /b")
    /\ parsed = Some(<<[key |-> Str("*"), val |-> <<Str("Allow: /b")>>]>>)
    /\ placed = {<<3, Str("*")>>}

\* The trimmed value after the colon of a 'user-agent:' line
AgentKey(raw) ==
    CASE raw = Str("User-Agent: *") -> Str("*")
      [] raw = Str("USER-AGENT:* ") -> Str("*")
      [] raw = Str("user-agent: bot") -> Str("bot")
      [] raw = Str("user-agent: ") -> <<>>

\* The number of the first 'user-agent:' line of t after line u (Len(t) + 1 if none)
NextAgent(t, u) ==
    IF \E i \in (u + 1)..Len(t) : t[i] \in AgentLines
    THEN CHOOSE i \in (u + 1)..Len(t) :
            t[i] \in AgentLines /\ \A j \in (u + 1)..(i - 1) : t[j] \notin AgentLines
    ELSE Len(t) + 1

\* The non-blank, non-comment lines between line u and the next 'user-agent:' line
GroupLines(t, u) ==
    LET between == SubSeq(t, u + 1, NextAgent(t, u) - 1)
        trimmed == [j \in 1..Len(between) |-> Strip(between[j])]
    IN SelectSeq(trimmed, LAMBDA l : l # <<>> /\ Head(l) # "#")

\* C15: in the result of parse_robots_txt every 'user-agent:' line of the text
\* has a group under its trimmed key, and the group of the last line with a
\* given key holds, in order, the non-blank, non-comment lines that follow that
\* line up to the next 'user-agent:' line - whatever the key, the empty key
\* and a key met earlier included.
C15_LinesAppendedToGroup ==
    parsed # None =>
        \A u \in 1..Len(Lines) :
            Lines[u] \in AgentLines =>
                /\ DictHas(parsed[1], AgentKey(Lines[u]))
                /\ (\A v \in (u + 1)..Len(Lines) :
                        Lines[v] \in AgentLines => AgentKey(Lines[v]) # AgentKey(Lines[u]))
                   => DictGet(parsed[1], AgentKey(Lines[u])) = GroupLines(Lines, u)

\* What is extracted from a homepage response
SignalsOfHome(h) ==
    IF h.status = 200 /\ h.body = HTML_BODY /\ h.headers = TAG_HEADERS
    THEN [meta |-> Some(Str("noindex")), tag |-> Some(Str("noarchive"))]
    ELSE [meta |-> None, tag |-> None]

\* The download_wayback calls that the snapshots of fetch_log account for, if
\* the homepage is requested whenever the robots.txt request returned
RECURSIVE CallsOf(_)
CallsOf(log) ==
    IF log = <<>> THEN 0
    ELSE (IF Head(log).robots.raises THEN 1 ELSE 2) + CallsOf(Tail(log))

\* C16: for a snapshot whose robots.txt fetch returned a response, status and
\* body alone give the content type, robots_txt and the rules (200 and HTML:
\* 'HTML_page', the sentinel, no rules; 200 and not HTML: 'robots.txt', the raw
\* text, the parsed rules; otherwise 'HTTP_Error_<status>', nothing else); the
\* homepage is requested in all three cases, and meta_robots and x_robots_tag
\* are extracted only from a homepage response with status 200.
C16_ContentTypeFromStatusAndBody ==
    /\ fetches = CallsOf(fetch_log)
    /\ \A i \in 1..Len(data) :
          LET r == data[i]
              f == fetch_log[i]
          IN ~f.robots.raises =>
                /\ r.status_robots = Some(f.robots.status)
                /\ r.robots_content_type = KeptOfRobots(f.robots).type
                /\ r.robots_txt = KeptOfRobots(f.robots).text
                /\ r.robots_rules = KeptOfRobots(f.robots).rules
                /\ r.raw_robots_response_text =
                      (IF f.robots.status = 200 THEN Some(f.robots.body.text) ELSE None)
                /\ f.home.raises =>
                      r.status_home = None /\ r.meta_robots = None /\ r.x_robots_tag = None
                /\ ~f.home.raises =>
                      /\ r.status_home = Some(f.home.status)
                      /\ r.meta_robots = SignalsOfHome(f.home).meta
                      /\ r.x_robots_tag = SignalsOfHome(f.home).tag
                      /\ r.error_details = None

C16_Witness ==
    /\ Len(data) = 2
    /\ fetch_log[1].robots = Response(404, HTML_BODY, <<>>)
    /\ fetch_log[1].home = Response(200, HTML_BODY, TAG_HEADERS)
    /\ data[1].robots_content_type = Str("HTTP_Error_404")
    /\ data[1].meta_robots = Some(Str("noindex"))
    /\ data[1].x_robots_tag = Some(Str("noarchive"))
    /\ fetch_log[2].robots = Response(200, HTML_BODY, <<>>)
    /\ fetch_log[2].home = Response(503, HTML_BODY, TAG_HEADERS)
    /\ extract_meta_robots(fetch_log[2].home.body) = Some(Str("noindex"))
    /\ extract_x_robots_tag(fetch_log[2].home.headers) = Some(Str("noarchive"))
    /\ data[2].robots_content_type = Str("HTML_page")
    /\ data[2].status_home = Some(503)
    /\ data[2].meta_robots = None /\ data[2].x_robots_tag = None

\* schema.py: the columns of the scraping dataset and their declared types
ROBOTS_SCRAPE_SCHEMA ==
    << <<"domain", "str">>, <<"timestamp", "str">>, <<"scraped_url", "str">>,
       <<"robots_txt", "str">>, <<"raw_robots_response_text", "str">>,
       <<"robots_content_type", "str">>, <<"robots_rules", "dict_or_str">>,
       <<"meta_robots", "str">>, <<"x_robots_tag", "str">>, <<"status_robots", "int">>,
       <<"status_home", "int">>, <<"error_details", "str">>, <<"datetime", "datetime">> >>

SchemaColumns == { ROBOTS_SCRAPE_SCHEMA[i][1] : i \in 1..Len(ROBOTS_SCRAPE_SCHEMA) }

\* C17: every row of the output dataset has exactly the columns declared in
\* ROBOTS_SCRAPE_SCHEMA (the twelve fields of the record and 'datetime'), and
\* a header names exactly those columns, each once.
C17_RowsMatchSchema ==
    \A p \in 1..Len(output.lines) :
        LET l == output.lines[p] IN
        /\ l.kind = "row" => DOMAIN l.cells = SchemaColumns
        /\ l.kind = "header" =>
              /\ { l.cells[i] : i \in 1..Len(l.cells) } = SchemaColumns
              /\ Len(l.cells) = Cardinality(SchemaColumns)

C17_Witness ==
    /\ Cardinality(SchemaColumns) = 13
    /\ Rows(0) # {} /\ Rows(1) # {} /\ Headers # {}
    /\ terminated = 1 /\ pc = "done"
    /\ \E p \in Rows(1) : output.lines[p].cells.datetime = Some(Str("2023-06-11 12:00:00"))
    /\ \E p \in Rows(1) : output.lines[p].cells.datetime = None

\* The number of records in a dataset file
RowCount(file) == Cardinality({ p \in 1..Len(file.lines) : file.lines[p].kind = "row" })

\* The records this run has appended to the output dataset
AppendedThisRun == RowCount(output) - RowCount(found.output)

\* The domains this run has finished with the given outcomes
Finished(outcomes) == Cardinality({ k \in 1..Len(handled) : handled[k][2] \in outcomes })

CountersMatch ==
    /\ success_count + fail_count = Len(handled)
    /\ success_count = Finished({"records"})
    /\ fail_count = Finished({"empty", "exception"})
    /\ total_snapshots = AppendedThisRun

\* C18: whenever a run is between two domains - before the first, after the
\* checkpoint write of each, and when it has returned - success_count +
\* fail_count is the number of domains the run has finished, each counted once
\* by the counter of its outcome, and total_snapshots is the number of records
\* this run has appended to the output dataset.
C18_CountersMatchBetweenDomains ==
    pc \in {"idle", "load", "loop", "sleep", "finish", "done"} => CountersMatch

\* The index the run read from the checkpoint file it found (0 if it read none)
ReadAtStart ==
    IF found.checkpoint.exists /\ found.checkpoint.text \notin NotIntegers
    THEN start_index ELSE 0

\* C19: within one run the values written to the checkpoint file increase
\* strictly from one write to the next, each lies in start_index + 1 ..
\* len(list), and none is lower than the index read at the start of the run.
\* (handled[k][1] is the row whose checkpoint write was the k-th of the run;
\* right after a write the file holds that row's index plus one.)
C19_CheckpointWritesIncrease ==
    /\ \A k \in 1..(Len(handled) - 1) : handled[k][1] < handled[k + 1][1]
    /\ \A k \in 1..Len(handled) :
          /\ handled[k][1] + 1 \in (start_index + 1)..Len(cells)
          /\ handled[k][1] + 1 >= ReadAtStart
    /\ (pc = "sleep" /\ handled # <<>>) =>
          LET written == ParseInt(checkpoint.text) IN
          /\ written.ok
          /\ written.val = LastHandled[1] + 1
          /\ written.val \in (start_index + 1)..Len(cells)
          /\ written.val >= ReadAtStart
          /\ Len(handled) > 1 => written.val > handled[Len(handled) - 1][1] + 1

C19_Witness ==
    /\ found.checkpoint.text = Str("-1") /\ start_index = -1
    /\ pc = "sleep" /\ Len(handled) = 2
    /\ handled[1][1] = 0 /\ handled[2][1] = 1
    /\ checkpoint.text = <<"2">>

\* C20: every record of scrape_robots_and_signals is consistent: the content
\* type is 'unknown' exactly when status_robots is absent; status_home is
\* present only if status_robots is; robots_rules is present only for the
\* content type 'robots.txt'; meta_robots and x_robots_tag are present only if
\* status_home is 200; error_details is absent when both statuses are present.
C20_RecordConsistent ==
    \A i \in 1..Len(data) :
        LET r == data[i] IN
        /\ (r.robots_content_type = Str("unknown")) <=> (r.status_robots = None)
        /\ r.status_home # None => r.status_robots # None
        /\ r.robots_rules # None => r.robots_content_type = Str("robots.txt")
        /\ (r.meta_robots # None \/ r.x_robots_tag # None) => r.status_home = Some(200)
        /\ (r.status_robots # None /\ r.status_home # None) => r.error_details = None

\* A record of a failed robots.txt fetch, then one of a robots.txt with rules
\* whose homepage answered 503 and carried both signals
C20_Witness ==
    /\ pc = "got" /\ Len(df) = 2
    /\ df[1].robots_content_type = Str("unknown") /\ df[1].error_details # None
    /\ df[2].robots_content_type = Str("robots.txt") /\ df[2].robots_rules # None
    /\ fetch_log[2].home = Response(503, HTML_BODY, TAG_HEADERS)
    /\ extract_meta_robots(fetch_log[2].home.body) = Some(Str("noindex"))
    /\ extract_x_robots_tag(fetch_log[2].home.headers) = Some(Str("noarchive"))
    /\ df[2].status_home = Some(503)
    /\ df[2].meta_robots = None /\ df[2].x_robots_tag = None
    /\ df[2].error_details = None

====
